---- MODULE Spec2Model ----
(***************************************************************************)
(* Model of the notes storage module (storage.js, kept as                  *)
(* src/unnamed/part_003): IndexedDB primary store, localStorage fallback,  *)
(* the CRUD operations over them and the seeding of a sample note.        *)
(*                                                                         *)
(* Abstractions, all stated here once:                                     *)
(*  - Date.now() is a non-decreasing clock `now`; every call of it is a     *)
(*    separate read, and the clock may tick between two reads.             *)
(*  - An id `note_<ms>_<suffix>` is the pair <<ms, suffix>> with suffix in  *)
(*    Suffixes; the seed's id `note_<ms>` is <<ms, 0>>.  String order of  *)
(*    the ids is the lexicographic order of the pairs.  NoId stands for    *)
(*    the falsy ids ("" / undefined).                                      *)
(*  - The IndexedDB object store 'notes' is the sequence of its records in *)
(*    key order (what getAll returns); keys are unique.                    *)
(*  - The localStorage item is its raw text: absent, "", text that does    *)
(*    not parse, text that parses to a non-array, or a JSON array.         *)
(***************************************************************************)
EXTENDS Integers, Sequences, FiniteSets, TLC

VARIABLES
  dbSupported,  \* 'indexedDB' in window
  idb,          \* records of object store 'notes', in key order
  ls,           \* raw value of localStorage['notes_db__notes']
  now,          \* the clock Date.now() reads
  ctx,          \* the context initStorage returned: "none" before it ran
  last,         \* history: the last operation, its inputs and its result
  app           \* the App component: its state, refs, timers and pending calls

vars == <<dbSupported, idb, ls, now, ctx, last, app>>

\* ------------------------------------------------------------------ bounds
MaxTime == 2
MaxNotes == 2

\* ------------------------------------------------------------- data model
NoId == <<0, 0>>
GhostId == <<0, 1>>

SampleTitle == "Welcome to Notes"
SampleContent == "This is your first note. Start typing to edit. Use Ctrl/Cmd+N to create a new note, Ctrl/Cmd+S to save, and Delete to remove."

NoNote == [id |-> NoId, title |-> "", content |-> "", createdAt |-> 0, updatedAt |-> 0]

IdLess(a, b) == a[1] < b[1] \/ (a[1] = b[1] /\ a[2] < b[2])

Range(s) == {s[i] : i \in 1..Len(s)}

Ids(s) == {s[i].id : i \in 1..Len(s)}

\* The three clock reads of one object literal: the clock ticks once before
\* read k (k = 0: it does not tick).
Reads(t, k) ==
  <<IF k = 1 THEN t + 1 ELSE t,
    IF k \in {1, 2} THEN t + 1 ELSE t,
    IF k \in {1, 2, 3} THEN t + 1 ELSE t>>

\* A tick before the first read is a Tick before the operation.
TickChoices == {0, 2, 3}

\* --------------------------------------------------------------- results
Rejected == [kind |-> "rejected", note |-> NoNote, notes |-> <<>>]
Void == [kind |-> "void", note |-> NoNote, notes |-> <<>>]
Null == [kind |-> "null", note |-> NoNote, notes |-> <<>>]
Returned(n) == [kind |-> "note", note |-> n, notes |-> <<>>]
Listed(s) == [kind |-> "list", note |-> NoNote, notes |-> s]
Context(type) == [kind |-> type, note |-> NoNote, notes |-> <<>>]

\* ------------------------------------------------------- seedSample
seedSample(r) ==
  [id |-> <<r[1], 0>>, title |-> SampleTitle, content |-> SampleContent,
   createdAt |-> r[2], updatedAt |-> r[3]]

\* ------------------------------------------------ localStorage and JSON
RawNull == [kind |-> "null", val |-> <<>>]
RawEmpty == [kind |-> "empty", val |-> <<>>]
RawGarbage == [kind |-> "garbage", val |-> <<>>]
RawObject == [kind |-> "object", val |-> <<>>]

JSONstringify(data) == [kind |-> "array", val |-> data]

\* JSON.parse: throws on text that is no JSON, else returns the value
JSONparse(raw) ==
  [throws |-> raw.kind \in {"garbage", "empty"},
   isArray |-> raw.kind = "array",
   val |-> raw.val]

\* !raw : null and "" are falsy
Falsy(raw) == raw.kind \in {"null", "empty"}

readLS(raw, getThrows) ==
  IF getThrows THEN <<>>
  ELSE IF Falsy(raw) THEN <<>>
  ELSE LET parsed == JSONparse(raw)
       IN IF parsed.throws THEN <<>>
          ELSE IF ~parsed.isArray THEN <<>>
          ELSE parsed.val

writeLS(raw, data, setThrows) ==
  IF setThrows THEN raw ELSE JSONstringify(data)

\* --------------------------------------------------- IndexedDB wrapper
getAllIndexed(db) == db

getIndexed(db, key) ==
  IF key \in Ids(db)
    THEN Returned(CHOOSE n \in Range(db) : n.id = key)
    ELSE Null

putIndexed(db, value) ==
  IF value.id \in Ids(db)
    THEN [i \in 1..Len(db) |-> IF db[i].id = value.id THEN value ELSE db[i]]
    ELSE SelectSeq(db, LAMBDA n : IdLess(n.id, value.id))
           \o <<value>>
           \o SelectSeq(db, LAMBDA n : IdLess(value.id, n.id))

deleteIndexed(db, key) == SelectSeq(db, LAMBDA n : n.id # key)

\* The collection a context reads.
Coll(c, db, raw) == IF c = "indexedDB" THEN getAllIndexed(db) ELSE readLS(raw, FALSE)

\* ------------------------------------------------------------- faults
\* Which backend requests of one operation fail.
Faults ==
  [open : BOOLEAN, dbRead : BOOLEAN, dbWrite : BOOLEAN, lsGet : BOOLEAN, lsSet : BOOLEAN]

NoFault ==
  [open |-> FALSE, dbRead |-> FALSE, dbWrite |-> FALSE, lsGet |-> FALSE, lsSet |-> FALSE]

Healthy == {NoFault}

\* The faults initStorage can meet: at most one failing IndexedDB request (the
\* first one ends the try block) and at most one failing localStorage call.
InitFaults ==
  {f \in Faults : /\ (f.open => ~f.dbRead /\ ~f.dbWrite)
                  /\ (f.dbRead => ~f.dbWrite)
                  /\ (f.lsGet => ~f.lsSet)}

\* The faults an operation on context c can meet.
Relevant(FS, c) ==
  {f \in FS : /\ ~f.open
              /\ (c = "indexedDB" => ~f.lsGet /\ ~f.lsSet)
              /\ (c = "localStorage" => ~f.dbRead /\ ~f.dbWrite)}

\* -------------------------------------------------------------- sorting
\* Array.prototype.sort with (a, b) => (b.updatedAt || 0) - (a.updatedAt || 0):
\* a stable sort, updatedAt descending.
RECURSIVE sortByUpdatedDesc(_)
sortByUpdatedDesc(s) ==
  IF s = <<>> THEN <<>>
  ELSE LET rest == sortByUpdatedDesc(SubSeq(s, 1, Len(s) - 1))
           x == s[Len(s)]
       IN SelectSeq(rest, LAMBDA n : n.updatedAt >= x.updatedAt)
            \o <<x>>
            \o SelectSeq(rest, LAMBDA n : n.updatedAt < x.updatedAt)

\* ------------------------------------------------------------ initStorage
\* k, k2: the clock ticks of the first and of the second seedSample() call.
initStorageFallback(db, raw, f, t, k2) ==
  LET seed == seedSample(Reads(t, k2))
      seeds == ~f.lsGet /\ Falsy(raw)
  IN [idb |-> db,
      ls |-> IF seeds /\ ~f.lsSet THEN JSONstringify(<<seed>>) ELSE raw,
      now |-> IF seeds THEN seed.updatedAt ELSE t,
      res |-> Context("localStorage")]

\* An initStorage without the try/catch around the IndexedDB steps.
initStorage_noCatch(sup, db, raw, f, t, k, k2) ==
  IF sup /\ (f.open \/ f.dbRead \/ (f.dbWrite /\ Len(db) = 0))
    THEN [idb |-> db, ls |-> raw, now |-> t, res |-> Rejected]
    ELSE IF sup
      THEN IF Len(db) = 0
             THEN [idb |-> putIndexed(db, seedSample(Reads(t, k))), ls |-> raw,
                   now |-> Reads(t, k)[3], res |-> Context("indexedDB")]
             ELSE [idb |-> db, ls |-> raw, now |-> t, res |-> Context("indexedDB")]
      ELSE initStorageFallback(db, raw, f, t, k2)

initStorage(sup, db, raw, f, t, k, k2) ==
  IF sup /\ ~f.open /\ ~f.dbRead
    THEN LET existing == getAllIndexed(db)
             sample == seedSample(Reads(t, k))
         IN IF Len(existing) = 0
              THEN IF f.dbWrite
                     THEN initStorageFallback(db, raw, f, sample.updatedAt, k2)
                     ELSE [idb |-> putIndexed(db, sample), ls |-> raw,
                           now |-> sample.updatedAt, res |-> Context("indexedDB")]
              ELSE [idb |-> db, ls |-> raw, now |-> t, res |-> Context("indexedDB")]
    ELSE initStorageFallback(db, raw, f, t, k2)

\* -------------------------------------------------------------- listNotes
\* A listNotes whose localStorage branch returns the items as stored, unsorted.
listNotes_unsortedLS(c, db, raw, f) ==
  IF c = "indexedDB"
    THEN IF f.dbRead THEN Rejected
         ELSE Listed(sortByUpdatedDesc(getAllIndexed(db)))
    ELSE Listed(readLS(raw, f.lsGet))

\* A listNotes that compares a.updatedAt - b.updatedAt: oldest first.
listNotes_oldestFirst(c, db, raw, f) ==
  LET newestFirst == sortByUpdatedDesc(IF c = "indexedDB" THEN getAllIndexed(db)
                                        ELSE readLS(raw, f.lsGet))
  IN IF c = "indexedDB" /\ f.dbRead THEN Rejected
     ELSE Listed([i \in 1..Len(newestFirst) |-> newestFirst[Len(newestFirst) + 1 - i]])

listNotes(c, db, raw, f) ==
  IF c = "indexedDB"
    THEN IF f.dbRead THEN Rejected
         ELSE Listed(sortByUpdatedDesc(getAllIndexed(db)))
    ELSE Listed(sortByUpdatedDesc(readLS(raw, f.lsGet)))

\* ---------------------------------------------------------------- getNote
getNote(c, db, raw, f, id) ==
  IF id = NoId THEN Null
  ELSE IF c = "indexedDB"
    THEN IF f.dbRead THEN Rejected ELSE getIndexed(db, id)
    ELSE LET items == readLS(raw, f.lsGet)
             hit == {i \in 1..Len(items) : items[i].id = id}
         IN IF hit = {} THEN Null
            ELSE Returned(items[CHOOSE i \in hit : \A j \in hit : i <= j])

\* ------------------------------------------------------------- createNote
createNote(c, db, raw, f, t, k, rnd) ==
  LET r == Reads(t, k)
      note == [id |-> <<r[1], rnd>>, title |-> "Untitled", content |-> "",
               createdAt |-> r[2], updatedAt |-> r[3]]
  IN IF c = "indexedDB"
       THEN IF f.dbWrite
              THEN [idb |-> db, ls |-> raw, now |-> r[3], res |-> Rejected]
              ELSE [idb |-> putIndexed(db, note), ls |-> raw, now |-> r[3],
                    res |-> Returned(note)]
       ELSE LET items == readLS(raw, f.lsGet)
            IN [idb |-> db, ls |-> writeLS(raw, Append(items, note), f.lsSet),
                now |-> r[3], res |-> Returned(note)]

\* ------------------------------------------------------------- updateNote
Fields == {"id", "title", "content", "createdAt", "updatedAt"}

\* A merge that lets the stored record win: { ...updates, ...existing, updatedAt }
merge_existingWins(existing, updates, t) == [existing EXCEPT !.updatedAt = t]

\* A merge that starts from the supplied fields alone: { ...updates, updatedAt }
merge_dropsExisting(existing, updates, t) ==
  [id |-> existing.id,
   title |-> IF "title" \in updates.fields THEN updates.vals.title ELSE "",
   content |-> IF "content" \in updates.fields THEN updates.vals.content ELSE "",
   createdAt |-> existing.createdAt,
   updatedAt |-> t]

\* { ...existing, ...updates, updatedAt: Date.now() }
merge(existing, updates, t) ==
  [id |-> IF "id" \in updates.fields THEN updates.vals.id ELSE existing.id,
   title |-> IF "title" \in updates.fields THEN updates.vals.title ELSE existing.title,
   content |-> IF "content" \in updates.fields
                 THEN updates.vals.content ELSE existing.content,
   createdAt |-> IF "createdAt" \in updates.fields
                   THEN updates.vals.createdAt ELSE existing.createdAt,
   updatedAt |-> t]

\* An updateNote that stores the merge also when the id is not found (an upsert).
updateNote_upserts(c, db, raw, f, t, id, updates) ==
  LET next == [merge(NoNote, updates, t) EXCEPT !.id = id]
  IN IF c = "indexedDB"
       THEN [idb |-> putIndexed(db, next), ls |-> raw, now |-> t, res |-> Returned(next)]
       ELSE [idb |-> db,
             ls |-> writeLS(raw, Append(SelectSeq(readLS(raw, f.lsGet),
                                                  LAMBDA n : n.id # id), next), f.lsSet),
             now |-> t, res |-> Returned(next)]

updateNote(c, db, raw, f, t, id, updates) ==
  LET stamp == t
      same == [idb |-> db, ls |-> raw, now |-> t, res |-> Null]
  IN IF id = NoId THEN same
     ELSE IF c = "indexedDB"
       THEN IF f.dbRead THEN [same EXCEPT !.res = Rejected]
            ELSE LET existing == getIndexed(db, id)
                 IN IF existing.kind = "null" THEN same
                    ELSE LET next == merge(existing.note, updates, stamp)
                         IN IF f.dbWrite
                              THEN [idb |-> db, ls |-> raw, now |-> stamp, res |-> Rejected]
                              ELSE [idb |-> putIndexed(db, next), ls |-> raw,
                                    now |-> stamp, res |-> Returned(next)]
       ELSE LET items == readLS(raw, f.lsGet)
                hit == {i \in 1..Len(items) : items[i].id = id}
            IN IF hit = {} THEN same
               ELSE LET idx == CHOOSE i \in hit : \A j \in hit : i <= j
                        next == merge(items[idx], updates, stamp)
                    IN [idb |-> db,
                        ls |-> writeLS(raw, [items EXCEPT ![idx] = next], f.lsSet),
                        now |-> stamp, res |-> Returned(next)]

\* ------------------------------------------------------------- deleteNote
\* A deleteNote that removes by position, items.splice(items.findIndex(..), 1):
\* index -1 of an absent id removes the last record.
deleteNote_splices(c, db, raw, f, t, id) ==
  LET items == Coll(c, db, raw)
      hit == {i \in 1..Len(items) : items[i].id = id}
      idx == IF hit = {} THEN Len(items) ELSE CHOOSE i \in hit : \A j \in hit : i <= j
      next == [i \in 1..(Len(items) - 1) |-> IF i < idx THEN items[i] ELSE items[i + 1]]
  IN IF Len(items) = 0 THEN [idb |-> db, ls |-> raw, now |-> t, res |-> Void]
     ELSE IF c = "indexedDB"
       THEN [idb |-> next, ls |-> raw, now |-> t, res |-> Void]
       ELSE [idb |-> db, ls |-> writeLS(raw, next, f.lsSet), now |-> t, res |-> Void]

deleteNote(c, db, raw, f, t, id) ==
  IF id = NoId THEN [idb |-> db, ls |-> raw, now |-> t, res |-> Void]
  ELSE IF c = "indexedDB"
    THEN IF f.dbWrite
           THEN [idb |-> db, ls |-> raw, now |-> t, res |-> Rejected]
           ELSE [idb |-> deleteIndexed(db, id), ls |-> raw, now |-> t, res |-> Void]
    ELSE LET items == readLS(raw, f.lsGet)
             next == SelectSeq(items, LAMBDA n : n.id # id)
         IN [idb |-> db, ls |-> writeLS(raw, next, f.lsSet), now |-> t, res |-> Void]

\* ================================================================ machine
NoUpd == [fields |-> {}, vals |-> NoNote]

\* The random suffixes createNote draws: one in the single-variant runs, any in
\* the side-by-side runs.
Suffixes == <<1, 2>>

Titles == {"Shopping list", "Untitled"}

\* The partial-field objects the editor calls updateNote with.
EditorUpdates ==
  {[fields |-> {"title"}, vals |-> [NoNote EXCEPT !.title = T]] : T \in Titles}
  \cup {[fields |-> {"content"}, vals |-> [NoNote EXCEPT !.content = "hello"]],
        [fields |-> {"title", "content"},
         vals |-> [NoNote EXCEPT !.title = "Shopping list", !.content = "hello"]]}

\* The editor's updates that carry the content field.
ContentUpdates == {e \in EditorUpdates : "content" \in e.fields}

Stored == Coll(ctx, idb, ls)

\* The ids the operations are called with: those stored, the one the last call
\* was given, the empty id and one that was never stored.
IdArgs == Ids(Stored) \cup {last.id, NoId, GhostId}

\* How an operation follows the one before it: "repeat" is a deleteNote of the id
\* the last deleteNote was given, "created" an updateNote of the note the last
\* createNote returned.
Chain(op, id) ==
  IF op = "delete" /\ last.op = "delete" /\ last.id = id THEN "repeat"
  ELSE IF op = "update" /\ last.op = "create" /\ last.res.kind = "note"
          /\ last.res.note.id = id THEN "created"
  ELSE "none"

\* alt: what the same call returned against the other variant, in the runs that
\* drive both variants side by side; res itself in all others.
Record(op, id, upd, f, res, alt, chain) ==
  [op |-> op, id |-> id, upd |-> upd, f |-> f, res |-> res, alt |-> alt, chain |-> chain]

\* The App component before it is mounted: useState / useRef initial values, no
\* timer set, no call in flight.  visible is the memo visibleNotes; title, content
\* and focus are the editor's two inputs and document.activeElement; timers are
\* the timeouts scheduleSave has set and that have neither fired nor been cleared,
\* saveTimer the handle in saveTimer.current (0: null), made the number of
\* timeouts set so far; tasks are the async functions that wait at an await.
\* edit is history: the edits of the current burst (n edits, the last one at time
\* at with the fields upd) and how many autosaves have fired since it began.
\* typed is history: the fields the user has typed in, with the last value of each.
NoQuery == <<>>

Unmounted ==
  [mounted |-> FALSE, notes |-> <<>>, activeId |-> NoId, query |-> NoQuery,
   visible |-> <<>>, saving |-> FALSE, title |-> "", content |-> "",
   focus |-> "none", timers |-> {}, saveTimer |-> 0, made |-> 0, tasks |-> <<>>,
   edit |-> [n |-> 0, at |-> 0, upd |-> NoUpd, fired |-> 0],
   typed |-> NoUpd]

\* What an earlier writer may have left under the key.
RawInputs == {RawNull, RawEmpty, RawGarbage, RawObject}

Init ==
  /\ dbSupported \in BOOLEAN
  /\ idb = <<>>
  /\ ls \in IF dbSupported THEN {RawNull} ELSE RawInputs
  /\ now = 1
  /\ ctx = "none"
  /\ last = Record("none", NoId, NoUpd, NoFault, Void, Void, "none")
  /\ app = Unmounted

\* Time passes between two operations.
Tick ==
  /\ now < MaxTime
  /\ now' = now + 1
  /\ UNCHANGED <<dbSupported, idb, ls, ctx, last, app>>

\* An operation that took the stores to r.idb, r.ls and returned r.res.
Effect(op, id, upd, f, r) ==
  /\ r.now <= MaxTime
  /\ idb' = r.idb
  /\ ls' = r.ls
  /\ now' = r.now
  /\ last' = Record(op, id, upd, f, r.res, r.res, Chain(op, id))
  /\ UNCHANGED <<dbSupported, app>>

\* The page loads: App's first effect awaits initStorage() and keeps its context.
InitStorage(FS) ==
  \E f \in FS, k \in TickChoices, k2 \in TickChoices :
    LET r == initStorage(dbSupported, idb, ls, f, now, k, k2)
    IN /\ Effect("init", NoId, NoUpd, f, r)
       /\ ctx' = r.res.kind

ListNotes(FS) ==
  /\ ctx # "none"
  /\ \E f \in Relevant(FS, ctx) :
       Effect("list", NoId, NoUpd, f,
              [idb |-> idb, ls |-> ls, now |-> now, res |-> listNotes(ctx, idb, ls, f)])
  /\ UNCHANGED ctx

CreateNote(FS) ==
  /\ ctx # "none"
  /\ Len(Stored) < MaxNotes
  /\ \E f \in Relevant(FS, ctx), k \in TickChoices, rnd \in {Suffixes[1]} :
       Effect("create", NoId, NoUpd, f, createNote(ctx, idb, ls, f, now, k, rnd))
  /\ UNCHANGED ctx

UpdateNote(FS, US) ==
  /\ ctx # "none"
  /\ \E f \in Relevant(FS, ctx), id \in IdArgs, u \in US :
       Effect("update", id, u, f, updateNote(ctx, idb, ls, f, now, id, u))
  /\ UNCHANGED ctx

DeleteNote(FS) ==
  /\ ctx # "none"
  /\ \E f \in Relevant(FS, ctx), id \in IdArgs :
       Effect("delete", id, NoUpd, f, deleteNote(ctx, idb, ls, f, now, id))
  /\ UNCHANGED ctx

\* The backends answer every request; updates come from the editor.
Next ==
  \/ Tick
  \/ InitStorage(Healthy)
  \/ ListNotes(Healthy)
  \/ CreateNote(Healthy)
  \/ UpdateNote(Healthy, EditorUpdates)
  \/ DeleteNote(Healthy)

Spec == Init /\ [][Next]_vars

\* Any backend request of any operation may fail.  The page loads once, on
\* stores as an earlier session may have left them.
OldNote == seedSample(<<1, 1, 1>>)

FaultInit ==
  /\ dbSupported \in BOOLEAN
  /\ idb \in IF dbSupported THEN {<<>>, <<OldNote>>} ELSE {<<>>}
  /\ ls \in RawInputs \cup {JSONstringify(<<>>), JSONstringify(<<OldNote>>)}
  /\ now = 1
  /\ ctx = "none"
  /\ last = Record("none", NoId, NoUpd, NoFault, Void, Void, "none")
  /\ app = Unmounted

FirstInit(FS) == ctx = "none" /\ InitStorage(FS)

FaultNext ==
  \/ Tick
  \/ FirstInit(InitFaults)
  \/ ListNotes(Faults)
  \/ CreateNote(Faults)
  \/ UpdateNote(Faults, ContentUpdates)
  \/ DeleteNote(Faults)

FaultSpec == FaultInit /\ [][FaultNext]_vars

\* Only the requests of initStorage may fail.
InitFaultNext ==
  \/ Tick
  \/ FirstInit(InitFaults)
  \/ ListNotes(Healthy)
  \/ CreateNote(Healthy)
  \/ UpdateNote(Healthy, ContentUpdates)
  \/ DeleteNote(Healthy)

InitFaultSpec == FaultInit /\ [][InitFaultNext]_vars

\* updateNote called with any partial note, the fields the editor never sends too.
AnyUpdates ==
  ContentUpdates
  \cup {[fields |-> {"id"}, vals |-> [NoNote EXCEPT !.id = GhostId]],
        [fields |-> {"createdAt"}, vals |-> NoNote],
        [fields |-> {"updatedAt"}, vals |-> NoNote]}

AnyNext ==
  \/ Tick
  \/ InitStorage(Healthy)
  \/ ListNotes(Healthy)
  \/ CreateNote(Healthy)
  \/ UpdateNote(Healthy, AnyUpdates)
  \/ DeleteNote(Healthy)

AnySpec == Init /\ [][AnyNext]_vars

\* ---------------------------------------------------------- side by side
\* The same calls, with the same clock reads and the same random suffixes, against
\* the IndexedDB variant (on idb) and against the localStorage fallback that an
\* indexedDB.open failure leaves (on ls).  Both stores start unwritten.
OpenFails == [NoFault EXCEPT !.open = TRUE]

TwinInit ==
  /\ dbSupported = TRUE
  /\ idb = <<>>
  /\ ls = RawNull
  /\ now = 1
  /\ ctx = "none"
  /\ last = Record("none", NoId, NoUpd, NoFault, Void, Void, "none")
  /\ app = Unmounted

TwinEffect(op, id, upd, a, b) ==
  /\ a.now <= MaxTime
  /\ idb' = a.idb
  /\ ls' = b.ls
  /\ now' = a.now
  /\ ctx' = "twin"
  /\ last' = Record(op, id, upd, NoFault, a.res, b.res, Chain(op, id))
  /\ UNCHANGED <<dbSupported, app>>

TwinIdArgs == Ids(idb) \cup Ids(readLS(ls, FALSE)) \cup {NoId, GhostId}

TwinInitStorage ==
  /\ ctx = "none"
  /\ \E k \in TickChoices :
       TwinEffect("init", NoId, NoUpd,
                  initStorage(dbSupported, idb, ls, NoFault, now, k, k),
                  initStorage(dbSupported, idb, ls, OpenFails, now, k, k))

TwinListNotes ==
  /\ ctx = "twin"
  /\ TwinEffect("list", NoId, NoUpd,
                [idb |-> idb, now |-> now, res |-> listNotes("indexedDB", idb, ls, NoFault)],
                [ls |-> ls, res |-> listNotes("localStorage", idb, ls, NoFault)])

TwinCreateNote ==
  /\ ctx = "twin"
  /\ Len(readLS(ls, FALSE)) < MaxNotes
  /\ \E k \in TickChoices, rnd \in Range(Suffixes) :
       TwinEffect("create", NoId, NoUpd,
                  createNote("indexedDB", idb, ls, NoFault, now, k, rnd),
                  createNote("localStorage", idb, ls, NoFault, now, k, rnd))

TwinUpdateNote ==
  /\ ctx = "twin"
  /\ \E id \in TwinIdArgs, u \in ContentUpdates :
       TwinEffect("update", id, u,
                  updateNote("indexedDB", idb, ls, NoFault, now, id, u),
                  updateNote("localStorage", idb, ls, NoFault, now, id, u))

TwinDeleteNote ==
  /\ ctx = "twin"
  /\ \E id \in TwinIdArgs :
       TwinEffect("delete", id, NoUpd,
                  deleteNote("indexedDB", idb, ls, NoFault, now, id),
                  deleteNote("localStorage", idb, ls, NoFault, now, id))

TwinNext ==
  \/ Tick
  \/ TwinInitStorage
  \/ TwinListNotes
  \/ TwinCreateNote
  \/ TwinUpdateNote
  \/ TwinDeleteNote

TwinSpec == TwinInit /\ [][TwinNext]_vars

\* ------------------------------------------------- filterNotes and sorting
\* The two pure list functions of storage.js, as App's memo visibleNotes applies
\* them.  Where matching looks inside a string, the string is the sequence of its
\* characters; Undefined is a missing title, content or query.
Undefined == <<"undefined">>

\* String.prototype.toLowerCase
toLowerCase(s) ==
  [i \in 1..Len(s) |-> IF s[i] = "S" THEN "s" ELSE IF s[i] = "H" THEN "h" ELSE s[i]]

\* String.prototype.includes
includes(s, q) == \E i \in 0..(Len(s) - Len(q)) : SubSeq(s, i + 1, i + Len(q)) = q

\* (x || '')
OrEmpty(x) == IF x = Undefined THEN <<>> ELSE x

\* A filterNotes that compares without toLowerCase().
filterNotes_caseSensitive(notes, query) ==
  IF query = Undefined \/ query = <<>> THEN notes
  ELSE SelectSeq(notes, LAMBDA n : \/ includes(OrEmpty(n.title), query)
                                   \/ includes(OrEmpty(n.content), query))

filterNotes(notes, query) ==
  IF query = Undefined \/ query = <<>> THEN notes
  ELSE LET q == toLowerCase(query)
       IN SelectSeq(notes, LAMBDA n : \/ includes(toLowerCase(OrEmpty(n.title)), q)
                                      \/ includes(toLowerCase(OrEmpty(n.content)), q))

\* A sortNotesByUpdated without the copy, notes.sort(...): the caller's array is
\* sorted in place.  arg is the argument array as the call leaves it.
sortNotesByUpdated_inPlace(notes) ==
  [arg |-> sortByUpdatedDesc(notes), ret |-> sortByUpdatedDesc(notes)]

\* [...notes].sort(...): the copy is sorted, the argument is left as it was.
sortNotesByUpdated(notes) ==
  [arg |-> notes, ret |-> sortByUpdatedDesc(notes)]

\* The texts and the queries the functions are applied to: "Shop", "shoe", "hop",
\* "", a missing field; queries "shop", "SH", "hoe", "pe", "" and none.
Shop == <<"S", "h", "o", "p">>
Shoe == <<"s", "h", "o", "e">>
Hop == <<"h", "o", "p">>

ViewTitles == {Shop, Shoe, Undefined}
ViewContents == {<<>>, Hop}
Queries == {Undefined, <<>>, <<"s", "h", "o", "p">>, <<"S", "H">>, <<"h", "o", "e">>,
            <<"p", "e">>}

\* Note arrays of up to MaxNotes notes, the i-th with id <<i, 1>>; updatedAt 0 is
\* also the missing updatedAt the comparator reads as 0.
ViewInputs ==
  UNION {[1..n -> [title : ViewTitles, content : ViewContents, updatedAt : 0..MaxTime]]
         : n \in 0..MaxNotes}

ViewNotes(in) ==
  [i \in 1..Len(in) |->
     [id |-> <<i, 1>>, title |-> in[i].title, content |-> in[i].content,
      createdAt |-> 0, updatedAt |-> in[i].updatedAt]]

ViewInit ==
  /\ dbSupported = TRUE
  /\ idb = <<>>
  /\ ls = RawNull
  /\ now = 1
  /\ ctx = "none"
  /\ last = Record("none", NoId, NoUpd, NoFault, Void, Void, "none")
  /\ \E in \in ViewInputs :
       app = [Unmounted EXCEPT !.mounted = TRUE, !.notes = ViewNotes(in)]

\* useMemo(() => sortNotesByUpdated(filterNotes(notes, query)), [notes, query]):
\* with no query filterNotes hands the state array itself to the sort.
visibleNotes(a, query) ==
  LET filtered == filterNotes(a.notes, query)
      sorted == sortNotesByUpdated(filtered)
  IN [a EXCEPT !.query = query,
               !.visible = sorted.ret,
               !.notes = IF query = Undefined \/ query = <<>> THEN sorted.arg ELSE @]

\* The search box changes: setQuery(e.target.value), and the memo is recomputed.
SetQuery ==
  /\ app.mounted
  /\ \E q \in Queries :
       /\ app' = visibleNotes(app, q)
       /\ last' = [last EXCEPT !.op = "view"]
  /\ UNCHANGED <<dbSupported, idb, ls, now, ctx>>

ViewNext == SetQuery

ViewSpec == ViewInit /\ [][ViewNext]_vars

\* ===================================================================== App
\* The component of App.jsx over the storage module.  A handler runs to its first
\* await in one step; what follows an await is a later step of the task it left.
\*
\* IndexedDB: every request is a transaction of its own on the one object store.
\* A request takes effect when it is issued (transactions run in the order they
\* are created), and its caller resumes later: after every request issued before
\* it, except that two reads (readonly transactions) may resume in either order.
\* tasks is the queue of the callers that wait, in the order of their requests.
\*
\* localStorage: no branch of the storage module waits for anything, so a handler
\* and all that follows its awaits run as microtasks before any other event: a
\* call on that context, its refresh and the effects of the render run in one step.
Delay == 1
MaxEdits == 2
MaxTasks == 2

\* pc: what the task does when it resumes
\*   "write"    getIndexed has returned read (NoNote: null): updateNote goes on
\*   "list"     the put / delete is done: the caller goes on to refreshNotes
\*   "refresh"  getAll has returned items: refreshNotes goes on, then its caller
\*   "flicker"  the 300 ms timeout of the force save
\* hist is history: the record an updateNote had read and the record its put
\* replaced.
Task(kind, pc, id, upd, read, wrote, items) ==
  [kind |-> kind, pc |-> pc, id |-> id, upd |-> upd, read |-> read, wrote |-> wrote,
   items |-> items, hist |-> [read |-> NoNote, replaced |-> NoNote]]

\* refreshNotes(false) of the effect on [ctx, refreshNotes], listNotes answered.
EffectTask(items) == Task("effect", "refresh", NoId, NoUpd, NoNote, FALSE, items)

ReadOnly(t) == t.pc \in {"write", "refresh"}

\* The i-th waiting task may resume.
CanResume(a, i) ==
  \/ a.tasks[i].pc = "flicker"
  \/ \A j \in 1..(i - 1) :
       \/ a.tasks[j].pc = "flicker"
       \/ ReadOnly(a.tasks[i]) /\ ReadOnly(a.tasks[j])

Without(q, i) == SubSeq(q, 1, i - 1) \o SubSeq(q, i + 1, Len(q))

Waiting(a) == Cardinality({i \in 1..Len(a.tasks) : a.tasks[i].pc # "flicker"})

\* notes.find(n => n.id === activeId) || null
HasActive(a) == a.activeId # NoId /\ a.activeId \in Ids(a.notes)

ActiveNote(a) ==
  a.notes[CHOOSE i \in 1..Len(a.notes) :
            /\ a.notes[i].id = a.activeId
            /\ \A j \in 1..(i - 1) : a.notes[j].id # a.activeId]

\* The editor exists while there is an active note.  The effect on [notes,
\* activeId] sets each input that does not have the focus to the note's value.
syncEditor(a) ==
  IF ~HasActive(a)
    THEN [a EXCEPT !.title = "", !.content = "", !.focus = "none"]
    ELSE [a EXCEPT !.title = IF a.focus = "title" THEN @ ELSE ActiveNote(a).title,
                   !.content = IF a.focus = "content" THEN @ ELSE ActiveNote(a).content]

\* What a render after setNotes / setActiveId brings: the memo, the editor sync,
\* and, when activeId changed, refreshNotes is a new function and the effect on
\* [ctx, refreshNotes] calls refreshNotes(false) again; items is what its
\* listNotes reads.
rendered(a, before, items) ==
  LET b == syncEditor([a EXCEPT !.visible =
                          sortNotesByUpdated(filterNotes(a.notes, a.query)).ret])
  IN IF a.activeId # before.activeId
       THEN [b EXCEPT !.tasks = Append(@, EffectTask(items))]
       ELSE b

\* refreshNotes(keepActive) once listNotes has returned items; captured is the
\* activeId of the render that made this refreshNotes.
refreshNotes(a, keepActive, captured, items) ==
  LET first == IF Len(items) > 0 THEN items[1].id ELSE NoId
      active == IF ~keepActive THEN first
                ELSE IF Len(items) > 0 /\ captured \notin Ids(items) THEN first
                ELSE a.activeId
  IN [a EXCEPT !.notes = items, !.activeId = active]

\* What the task a.tasks[i] does once its listNotes has returned: refreshNotes, then
\*   save    setSaving(false)
\*   create  setActiveId(n.id)
\*   force, delete, effect   nothing more
afterRefresh(a, i) ==
  LET t == a.tasks[i]
      keep == t.kind \in {"save", "force", "create"}
      b == refreshNotes([a EXCEPT !.tasks = Without(@, i)], keep, t.id, t.items)
  IN IF t.kind = "save" THEN [b EXCEPT !.saving = FALSE]
     ELSE IF t.kind = "create" THEN [b EXCEPT !.activeId = t.read.id]
     ELSE b

\* The render that follows, and for handleCreate the timeout that then focuses the
\* title input (titleRef.current?.focus()).
resumed(a, i, items) ==
  LET b == rendered(afterRefresh(a, i), a, items)
  IN IF a.tasks[i].kind = "create" /\ HasActive(b) THEN [b EXCEPT !.focus = "title"]
     ELSE b

\* On localStorage the waiting tasks run on at once, in order, until none is left
\* (the timeout of a force save apart).
RECURSIVE settled(_, _)
settled(a, items) ==
  LET run == {i \in 1..Len(a.tasks) : a.tasks[i].pc = "refresh"}
  IN IF ctx' # "localStorage" \/ run = {} THEN a
     ELSE LET i == CHOOSE i \in run : \A j \in run : i <= j
          IN settled(resumed(a, i, items), items)

\* The list a listNotes issued in this step returns.
Listing == listNotes(ctx', idb', ls', NoFault).notes

\* The write faults an App call can meet.
WriteFaults(FS) ==
  {f \in Relevant(FS, ctx) : ~f.dbRead /\ ~f.lsGet}

\* updateNote as its caller sees it start: on localStorage the whole call, on
\* IndexedDB the getIndexed request.
updateStart(kind, id, upd, f) ==
  IF ctx = "indexedDB"
    THEN LET existing == getIndexed(idb, id)
         IN [ls |-> ls,
             task |-> Task(kind, "write", id, upd, existing.note, FALSE, <<>>)]
    ELSE LET r == updateNote(ctx, idb, ls, f, now, id, upd)
         IN [ls |-> r.ls,
             task |-> Task(kind, "refresh", id, upd, r.res.note,
                           r.res.kind = "note" /\ ~f.lsSet,
                           listNotes(ctx, idb, r.ls, NoFault).notes)]

\* setSaving(true) and the 300 ms timeout that follow a force save's updateNote.
forceSaved(a, t) ==
  IF t.kind = "force"
    THEN [a EXCEPT !.saving = TRUE, !.tasks = Append(@, [t EXCEPT !.pc = "flicker"])]
    ELSE a

\* ------------------------------------------------------------ user events
AppFrame == UNCHANGED <<dbSupported, last>>

\* The page loads: initStorage(), setCtx(c), and the effect on [ctx, refreshNotes].
Mount ==
  /\ ~app.mounted
  /\ ctx = "none"
  /\ \E k \in TickChoices :
       LET r == initStorage(dbSupported, idb, ls, NoFault, now, k, k)
       IN /\ r.now <= MaxTime
          /\ idb' = r.idb
          /\ ls' = r.ls
          /\ now' = r.now
          /\ ctx' = r.res.kind
  /\ app' = settled([app EXCEPT !.mounted = TRUE, !.tasks = <<EffectTask(Listing)>>],
                    Listing)
  /\ AppFrame

Passes ==
  /\ now < MaxTime
  /\ now' = now + 1
  /\ UNCHANGED <<dbSupported, idb, ls, ctx, last, app>>

\* handleSelect: a click on another note of the list.  switched marks, as history,
\* the timeouts that were pending at the switch.
Select ==
  /\ app.mounted
  /\ Waiting(app) < MaxTasks
  /\ UNCHANGED <<idb, ls, now, ctx>>
  /\ \E id \in Ids(app.visible) \ {app.activeId} :
       app' = settled(rendered([app EXCEPT !.activeId = id, !.focus = "none",
                                  !.timers = {[t EXCEPT !.switched = TRUE] : t \in @}],
                               app, Listing),
                      Listing)
  /\ AppFrame

\* A scheduleSave that sets its timeout without clearing the one before.
scheduleSave_noClear(a, field, value) ==
  LET upd == [fields |-> {field}, vals |-> [NoNote EXCEPT ![field] = value]]
      timer == [h |-> a.made + 1, id |-> a.activeId, upd |-> upd, due |-> now + Delay,
                switched |-> FALSE]
  IN [a EXCEPT !.saving = TRUE,
               !.timers = @ \cup {timer},
               !.saveTimer = timer.h,
               !.made = @ + 1]

\* scheduleSave(field, value) of the current render
scheduleSave(a, field, value) ==
  IF ctx = "none" \/ a.activeId = NoId THEN a
  ELSE LET upd == [fields |-> {field}, vals |-> [NoNote EXCEPT ![field] = value]]
           timer == [h |-> a.made + 1, id |-> a.activeId, upd |-> upd,
                     due |-> now + Delay, switched |-> FALSE]
       IN [a EXCEPT !.saving = TRUE,
                    !.timers = {t \in @ : t.h # a.saveTimer} \cup {timer},
                    !.saveTimer = timer.h,
                    !.made = @ + 1]

\* The edit as history: a burst goes on while edits are less than Delay apart.
noteEdit(a, field, value) ==
  LET same == a.edit.n > 0 /\ now < a.edit.at + Delay
  IN [a EXCEPT !.edit = [n |-> IF same THEN @.n + 1 ELSE 1,
                         at |-> now,
                         upd |-> [fields |-> {field},
                                  vals |-> [NoNote EXCEPT ![field] = value]],
                         fired |-> IF same THEN @.fired ELSE 0],
               !.typed = [fields |-> @.fields \cup {field},
                          vals |-> [@.vals EXCEPT ![field] = value]]]

\* The user types in the title or the content input: handleTitleChange /
\* handleContentChange.
Edit(field, values) ==
  /\ app.mounted
  /\ HasActive(app)
  /\ app.made < MaxEdits
  /\ now + Delay <= MaxTime
  /\ \E v \in values \ {app[field]} :
       app' = scheduleSave(noteEdit([app EXCEPT !.focus = field, ![field] = v], field, v),
                           field, v)
  /\ UNCHANGED <<idb, ls, now, ctx>>
  /\ AppFrame

EditTitle == Edit("title", Titles)

EditContent == Edit("content", {"hello"})

\* The focus leaves the editor's inputs.
Blur ==
  /\ app.mounted
  /\ app.focus # "none"
  /\ app' = [app EXCEPT !.focus = "none"]
  /\ UNCHANGED <<idb, ls, now, ctx>>
  /\ AppFrame

\* handleCreate: createNote(ctx), and on IndexedDB the wait for its put.
Create(FS) ==
  /\ app.mounted
  /\ ctx # "none"
  /\ Len(Stored) < MaxNotes
  /\ Waiting(app) < MaxTasks
  /\ UNCHANGED ctx
  /\ \E f \in WriteFaults(FS), k \in TickChoices :
       LET r == createNote(ctx, idb, ls, f, now, k, Suffixes[1])
           pc == IF ctx = "indexedDB" THEN "list" ELSE "refresh"
           t == Task("create", pc, app.activeId, NoUpd, r.res.note, ~f.lsSet,
                     IF ctx = "indexedDB" THEN <<>>
                     ELSE listNotes(ctx, r.idb, r.ls, NoFault).notes)
       IN /\ r.now <= MaxTime
          /\ idb' = r.idb
          /\ ls' = r.ls
          /\ now' = r.now
          /\ app' = IF r.res.kind = "rejected" THEN app
                    ELSE settled([app EXCEPT !.tasks = Append(@, t)], Listing)
  /\ AppFrame

\* handleDelete: deleteNote(ctx, activeId), confirmed, and on IndexedDB the wait.
Delete(FS) ==
  /\ app.mounted
  /\ ctx # "none"
  /\ app.activeId # NoId
  /\ Waiting(app) < MaxTasks
  /\ UNCHANGED <<now, ctx>>
  /\ \E f \in WriteFaults(FS) :
       LET r == deleteNote(ctx, idb, ls, f, now, app.activeId)
           pc == IF ctx = "indexedDB" THEN "list" ELSE "refresh"
           t == Task("delete", pc, app.activeId, NoUpd, NoNote, ~f.lsSet,
                     IF ctx = "indexedDB" THEN <<>>
                     ELSE listNotes(ctx, r.idb, r.ls, NoFault).notes)
       IN /\ idb' = r.idb
          /\ ls' = r.ls
          /\ app' = IF r.res.kind = "rejected" THEN [app EXCEPT !.focus = "none"]
                    ELSE settled([app EXCEPT !.focus = "none", !.tasks = Append(@, t)],
                                 Listing)
  /\ AppFrame

\* Ctrl/Cmd+S: updateNote(ctx, activeId, { title, content }) with the inputs' values.
\* The keys are pressed again only when the force save before has finished, its
\* 300 ms timeout included.
ForceSave(FS) ==
  /\ app.mounted
  /\ ctx # "none"
  /\ app.activeId # NoId
  /\ Len(app.tasks) < MaxTasks
  /\ \A i \in 1..Len(app.tasks) : app.tasks[i].kind # "force"
  /\ UNCHANGED <<idb, now, ctx>>
  /\ \E f \in WriteFaults(FS) :
       LET upd == [fields |-> {"title", "content"},
                   vals |-> [NoNote EXCEPT !.title = app.title, !.content = app.content]]
           r == updateStart("force", app.activeId, upd, f)
       IN /\ ls' = r.ls
          /\ app' = IF ctx = "indexedDB"
                      THEN [app EXCEPT !.tasks = Append(@, r.task)]
                      ELSE settled(forceSaved([app EXCEPT !.tasks = Append(@, r.task)],
                                              r.task),
                                   Listing)
  /\ AppFrame

\* The component unmounts: the cleanup clears the timeout in saveTimer.current.
Unmount ==
  /\ app.mounted
  /\ app' = [app EXCEPT !.mounted = FALSE,
                        !.timers = {t \in @ : t.h # app.saveTimer}]
  /\ UNCHANGED <<idb, ls, now, ctx>>
  /\ AppFrame

\* ------------------------------------------------- timers and continuations
\* A timeout of scheduleSave fires: its callback calls updateNote(ctx, activeId,
\* { [field]: value }) with the activeId of the render that scheduled it.
\* f: which requests of the call fail.
TimerFiresWith(t, f) ==
  /\ t \in app.timers
  /\ now >= t.due
  /\ UNCHANGED <<idb, now, ctx>>
  /\ \E r \in {updateStart("save", t.id, t.upd, f)} :
       /\ ls' = r.ls
       /\ app' = settled([app EXCEPT !.timers = @ \ {t},
                                     !.tasks = Append(@, r.task),
                                     !.edit.fired = @ + 1],
                         Listing)
  /\ AppFrame

TimerFires(t, FS) == \E f \in WriteFaults(FS) : TimerFiresWith(t, f)

Fires(FS) == \E t \in app.timers : TimerFires(t, FS)

\* The second half of an updateNote on IndexedDB, with a write that merges into
\* the record as it is stored now.
updateWrite_merges(t, f) ==
  LET stored == getIndexed(idb, t.id)
      next == merge(IF stored.kind = "note" THEN stored.note ELSE t.read, t.upd, now)
  IN IF f.dbWrite THEN [idb |-> idb, ok |-> FALSE, note |-> next]
     ELSE [idb |-> putIndexed(idb, next), ok |-> TRUE, note |-> next]

\* The second half of an updateNote on IndexedDB: getIndexed has returned existing
\* (t.read); next = { ...existing, ...updates, updatedAt: Date.now() } is put.
updateWrite(t, f) ==
  LET next == merge(t.read, t.upd, now)
  IN IF f.dbWrite THEN [idb |-> idb, ok |-> FALSE, note |-> next]
     ELSE [idb |-> putIndexed(idb, next), ok |-> TRUE, note |-> next]

\* getIndexed has answered task i.  No record: updateNote returns null and its
\* caller goes on to refreshNotes.  A put that fails rejects updateNote, and the
\* caller's function ends there.
TaskWritesWith(i, f) ==
  /\ i \in 1..Len(app.tasks)
  /\ app.tasks[i].pc = "write"
  /\ CanResume(app, i)
  /\ UNCHANGED <<ls, now, ctx>>
  /\ LET t == app.tasks[i]
     IN IF t.read = NoNote
          THEN /\ idb' = idb
               /\ app' = forceSaved([app EXCEPT !.tasks =
                                       Append(Without(@, i),
                                              [t EXCEPT !.pc = "refresh", !.items = Listing])],
                                    t)
          ELSE LET r == updateWrite(t, f)
               IN /\ idb' = r.idb
                  /\ app' = [app EXCEPT !.tasks =
                               IF r.ok
                                 THEN Append(Without(@, i),
                                             [t EXCEPT !.pc = "list", !.read = r.note,
                                                       !.wrote = TRUE,
                                                       !.hist = [read |-> t.read,
                                                                 replaced |->
                                                                   getIndexed(idb, t.id).note]])
                                 ELSE Without(@, i)]
  /\ AppFrame

TaskWrites(i, FS) == \E f \in WriteFaults(FS) : TaskWritesWith(i, f)

Writes(FS) == \E i \in 1..Len(app.tasks) : TaskWrites(i, FS)

\* The put or the delete of task i is done: its caller goes on to refreshNotes,
\* which calls listNotes (the force save: and setSaving(true), and its timeout).
TaskLists(i) ==
  /\ i \in 1..Len(app.tasks)
  /\ app.tasks[i].pc = "list"
  /\ CanResume(app, i)
  /\ UNCHANGED <<idb, ls, now, ctx>>
  /\ LET t == app.tasks[i]
     IN app' = forceSaved([app EXCEPT !.tasks =
                             Append(Without(@, i),
                                    [t EXCEPT !.pc = "refresh", !.items = Listing])],
                          t)
  /\ AppFrame

Lists == \E i \in 1..Len(app.tasks) : TaskLists(i)

\* listNotes has answered task i: refreshNotes goes on, then its caller.  An
\* unmounted component's setters do nothing.
TaskRefreshes(i) ==
  /\ i \in 1..Len(app.tasks)
  /\ app.tasks[i].pc = "refresh"
  /\ CanResume(app, i)
  /\ UNCHANGED <<idb, ls, now, ctx>>
  /\ app' = IF app.mounted THEN resumed(app, i, Listing)
            ELSE [app EXCEPT !.tasks = Without(@, i)]
  /\ AppFrame

Refreshes == \E i \in 1..Len(app.tasks) : TaskRefreshes(i)

\* The 300 ms timeout of the force save: setSaving(false).
Flickers ==
  /\ \E i \in 1..Len(app.tasks) :
       /\ app.tasks[i].pc = "flicker"
       /\ app' = [app EXCEPT !.tasks = Without(@, i),
                             !.saving = IF app.mounted THEN FALSE ELSE @]
  /\ UNCHANGED <<idb, ls, now, ctx>>
  /\ AppFrame

\* The stores as an earlier session left them: the sample note and a note that
\* was created after it, under the backend this browser uses.
OldCreated ==
  [id |-> <<1, 1>>, title |-> "Untitled", content |-> "", createdAt |-> 1, updatedAt |-> 1]

SessionInit ==
  /\ dbSupported \in BOOLEAN
  /\ idb = IF dbSupported THEN <<OldNote, OldCreated>> ELSE <<>>
  /\ ls = IF dbSupported THEN RawNull ELSE JSONstringify(<<OldNote, OldCreated>>)
  /\ now = 1
  /\ ctx = "none"
  /\ last = Record("none", NoId, NoUpd, NoFault, Void, Void, "none")
  /\ app = Unmounted

\* Editing, switching and leaving: the debounced autosave.
DebounceNext ==
  \/ Mount
  \/ Passes
  \/ Select
  \/ EditTitle
  \/ EditContent
  \/ Unmount
  \/ Fires(Healthy)
  \/ Writes(Healthy)
  \/ Lists
  \/ Refreshes

DebounceSpec == SessionInit /\ [][DebounceNext]_vars

\* Creating, deleting, selecting and editing notes, from a first visit on.
AppNext ==
  \/ Mount
  \/ Passes
  \/ Select
  \/ EditTitle
  \/ Create(Healthy)
  \/ Delete(Healthy)
  \/ Fires(Healthy)
  \/ Writes(Healthy)
  \/ Lists
  \/ Refreshes

AppSpec == Init /\ [][AppNext]_vars

\* Editing while the store's writes may fail: localStorage.setItem throws (quota,
\* private mode), an IndexedDB put is rejected.
SaveFaultNext ==
  \/ Mount
  \/ Passes
  \/ EditTitle
  \/ EditContent
  \/ Blur
  \/ Fires(Faults)
  \/ Writes(Faults)
  \/ Lists
  \/ Refreshes

SaveFaultSpec == SessionInit /\ [][SaveFaultNext]_vars

\* One editing session on the first note, and what the browser guarantees: time
\* passes, a timeout that is due fires, a request that was issued is answered and
\* its caller resumes.  The user is free to type or not.
LiveNext ==
  \/ Mount
  \/ Passes
  \/ EditTitle
  \/ EditContent
  \/ Fires(Healthy)
  \/ Writes(Healthy)
  \/ Lists
  \/ Refreshes

LiveSpec ==
  /\ SessionInit
  /\ [][LiveNext]_vars
  /\ WF_vars(Passes)
  /\ WF_vars(Fires(Healthy))
  /\ WF_vars(Writes(Healthy))
  /\ WF_vars(Lists)
  /\ WF_vars(Refreshes)

\* Calls that overlap: the autosave and the force save of the note that is being
\* edited.
RaceNext ==
  \/ Mount
  \/ Passes
  \/ EditTitle
  \/ EditContent
  \/ ForceSave(Healthy)
  \/ Fires(Healthy)
  \/ Writes(Healthy)
  \/ Lists
  \/ Refreshes
  \/ Flickers

RaceSpec == SessionInit /\ [][RaceNext]_vars

\* ================================================================= claims
\* A step that is an operation op (a Tick leaves everything but the clock alone).
OpStep(op) == last'.op = op /\ <<idb, ls, ctx, last>>' # <<idb, ls, ctx, last>>

IsSample(n) == n.title = SampleTitle /\ n.content = SampleContent

\* C1: initStorage on a store that holds no notes at open time leaves exactly one
\* sample note in it, and on a store that holds a note it adds none (both variants).
C1_InitSeedsExactlyWhenEmpty ==
  [][OpStep("init") =>
       LET before == Coll(ctx', idb, ls)
           after == Coll(ctx', idb', ls')
       IN IF Len(before) = 0
            THEN Len(after) = 1 /\ IsSample(after[1])
            ELSE after = before]_vars

\* C3: updateNote(ctx, id, {title: T}) changes only that note's title and updatedAt:
\* its id, content and createdAt stay, and every other note stays as it was.
C3_TitleUpdateFrame ==
  [][OpStep("update") /\ last'.upd.fields = {"title"} =>
       LET before == Coll(ctx, idb, ls)
           after == Coll(ctx, idb', ls')
       IN /\ Len(after) = Len(before)
          /\ \A i \in 1..Len(before) :
               IF before[i].id = last'.id
                 THEN /\ after[i].id = before[i].id
                      /\ after[i].content = before[i].content
                      /\ after[i].createdAt = before[i].createdAt
                      /\ after[i].title \in {before[i].title, last'.upd.vals.title}
                 ELSE after[i] = before[i]
          /\ last'.res.kind = "note" =>
               /\ last'.res.note \in Range(after)
               /\ last'.res.note.title = last'.upd.vals.title]_vars

C3_Witness ==
  /\ last.op = "update"
  /\ last.upd.fields = {"title"}
  /\ last.res.kind = "note"
  /\ Len(Stored) >= 2
  /\ \E n \in Range(Stored) : n.id # last.id /\ n.title # last.upd.vals.title

\* C4: for an id that is not in the store (the empty id too) updateNote returns
\* null and leaves the stored collection as it was.
C4_UpdateAbsentId ==
  [][last'.op = "update" /\ last' # last /\ last'.id \notin Ids(Coll(ctx, idb, ls)) =>
       /\ last'.res = Null
       /\ idb' = idb
       /\ ls' = ls]_vars

C4_Witness ==
  /\ last.op = "update"
  /\ last.id = GhostId
  /\ last.res = Null
  /\ Len(Stored) >= 1

\* C5: deleteNote is idempotent: a second deleteNote(id) leaves the collection the
\* first one left, and deleteNote of an absent id raises no error and changes nothing.
C5_DeleteIdempotent ==
  [][/\ last'.op = "delete" /\ last'.chain = "repeat" =>
          Coll(ctx, idb', ls') = Coll(ctx, idb, ls)
     /\ last'.op = "delete" /\ last'.id \notin Ids(Coll(ctx, idb, ls)) =>
          /\ last'.res = Void
          /\ Coll(ctx, idb', ls') = Coll(ctx, idb, ls)]_vars

C5_Witness ==
  /\ last.op = "delete"
  /\ last.chain = "repeat"
  /\ last.id \notin {NoId, GhostId}
  /\ last.res = Void
  /\ Len(Stored) >= 1

\* C6: a listNotes right after createNote returned N contains N, with title
\* "Untitled", empty content and createdAt equal to updatedAt.
C6_CreatedNoteListed ==
  last.op = "create" /\ last.res.kind = "note" =>
    LET items == listNotes(ctx, idb, ls, NoFault).notes
        N == last.res.note
    IN /\ N \in Range(items)
       /\ N.title = "Untitled"
       /\ N.content = ""
       /\ N.createdAt = N.updatedAt

\* The end-to-end run of C7: createNote returned A, then A's content was set to
\* "hello" and no other note holds that content.
C7_Scenario ==
  /\ last.op = "update"
  /\ last.chain = "created"
  /\ last.upd.fields = {"content"}
  /\ last.upd.vals.content = "hello"
  /\ last.res.kind = "note"
  /\ \A n \in Range(Stored) : n.id # last.id => n.content # "hello"

Hello(items) == {i \in 1..Len(items) : items[i].content = "hello"}

\* C7 as written: after creating A and setting its content to "hello", listNotes
\* returns exactly one note with content "hello", whose updatedAt is greater than
\* its createdAt.
C7_UpdatedStrictlyLater ==
  C7_Scenario =>
    LET items == listNotes(ctx, idb, ls, NoFault).notes
    IN /\ Cardinality(Hello(items)) = 1
       /\ \A i \in Hello(items) : items[i].updatedAt > items[i].createdAt

\* C7 amended: ... whose updatedAt is greater than or equal to its createdAt.
C7_UpdatedNotEarlier ==
  C7_Scenario =>
    LET items == listNotes(ctx, idb, ls, NoFault).notes
    IN /\ Cardinality(Hello(items)) = 1
       /\ \A i \in Hello(items) :
            /\ items[i].id = last.id
            /\ items[i].updatedAt >= items[i].createdAt

C7_Witness ==
  /\ C7_Scenario
  /\ last.res.note.updatedAt = last.res.note.createdAt
  /\ Len(Stored) >= 2

\* C2: when the backend write of createNote, updateNote or deleteNote fails, the
\* operation reports a failure to its caller, and under the localStorage variant
\* the persisted collection is what it was before the call.
WriteFailed(l, c, before) ==
  /\ l.op \in {"create", "update", "delete"}
  /\ IF c = "indexedDB"
       THEN l.f.dbWrite /\ ~l.f.dbRead
       ELSE l.f.lsSet /\ (l.op = "update" => ~l.f.lsGet)
  /\ l.op = "create" \/ (l.id # NoId /\ (l.op = "update" => l.id \in Ids(before)))

C2_WriteFailureReported ==
  [][last' # last /\ WriteFailed(last', ctx, Coll(ctx, idb, ls)) =>
       /\ last'.res = Rejected
       /\ ctx = "localStorage" => ls' = ls]_vars

\* C10: initStorage never fails its caller: when opening the database, reading
\* the existing notes or writing the seed fails, it still returns, and what it
\* returns is a localStorage context.
C10_InitNeverFails ==
  [][OpStep("init") =>
       /\ last'.res.kind \in {"indexedDB", "localStorage"}
       /\ ctx' = last'.res.kind
       /\ (last'.f.open \/ last'.f.dbRead \/ (last'.f.dbWrite /\ Len(idb) = 0)) =>
            last'.res = Context("localStorage")]_vars

C10_Witness ==
  /\ last.op = "init"
  /\ dbSupported
  /\ last.f.dbWrite
  /\ Len(idb) = 0
  /\ ctx = "localStorage"

\* C9: in every reachable state no two stored notes share an id, and every stored
\* note has the id and the createdAt it was created with: a step adds no
\* (id, createdAt) pair but that of the note createNote or seedSample made.
Born(s) == {<<s[i].id, s[i].createdAt>> : i \in 1..Len(s)}

C9_IdUniqueAndImmutable ==
  [][LET before == Coll(ctx', idb, ls)
         after == Coll(ctx', idb', ls')
         made == IF last'.op = "create" /\ last'.res.kind = "note"
                   THEN {<<last'.res.note.id, last'.res.note.createdAt>>}
                 ELSE IF last'.op = "init"
                   THEN Born(SelectSeq(after, IsSample))
                 ELSE {}
     IN /\ Cardinality(Ids(after)) = Len(after)
        /\ Born(after) \subseteq Born(before) \cup made]_vars

\* C8 as written: against the fallback the calls return what they return against
\* IndexedDB and leave the same collection, and the first init leaves a sample note.
SameNotes(a, b) == Len(a) = Len(b) /\ Range(a) = Range(b)

NonIncreasing(s) == \A i \in 1..(Len(s) - 1) : s[i].updatedAt >= s[i + 1].updatedAt

Count(s, x) == Cardinality({i \in 1..Len(s) : s[i] = x})

IsPermutation(a, b) ==
  /\ Len(a) = Len(b)
  /\ \A x \in Range(a) \cup Range(b) : Count(a, x) = Count(b, x)

C11_ListNotesAllSorted ==
  last.op = "list" =>
    /\ last.res.kind = "list"
    /\ IsPermutation(last.res.notes, Stored)
    /\ NonIncreasing(last.res.notes)

C11_Witness ==
  /\ last.op = "list"
  /\ Len(last.res.notes) >= 2
  /\ last.res.notes # Stored
  /\ last.res.notes[1].updatedAt > last.res.notes[2].updatedAt

\* C12: sortNotesByUpdated returns a permutation of its input with non-increasing
\* updatedAt, keeps notes of equal updatedAt in their input order, and leaves its
\* input as it was.
Pos(s, id) == CHOOSE i \in 1..Len(s) : s[i].id = id

Stable(in, out) ==
  \A i, j \in 1..Len(in) :
    i < j /\ in[i].updatedAt = in[j].updatedAt => Pos(out, in[i].id) < Pos(out, in[j].id)

C12_SortStablePermutation ==
  LET r == sortNotesByUpdated(app.notes)
  IN /\ IsPermutation(r.ret, app.notes)
     /\ NonIncreasing(r.ret)
     /\ Stable(app.notes, r.ret)
     /\ r.arg = app.notes
     /\ last.op = "view" /\ app.query \in {Undefined, <<>>} =>
          app.visible = r.ret /\ IsPermutation(app.visible, app.notes)

C12_Witness ==
  /\ last.op = "view"
  /\ app.query = <<>>
  /\ Len(app.notes) >= 2
  /\ \E i, j \in 1..Len(app.notes) :
       /\ i < j
       /\ app.notes[i].updatedAt = app.notes[j].updatedAt
       /\ app.notes[i].title # app.notes[j].title
       /\ Pos(app.visible, app.notes[i].id) < Pos(app.visible, app.notes[j].id)

\* C13: filterNotes(notes, query) returns, in input order, exactly the notes whose
\* title or content contains query ignoring letter case, and with an empty or a
\* missing query the input itself.
SameLetter(a, b) == a = b \/ {a, b} = {"S", "s"} \/ {a, b} = {"H", "h"}

Contains(text, query) ==
  \E off \in 0..(Len(text) - Len(query)) :
    \A k \in 1..Len(query) : SameLetter(text[off + k], query[k])

Matches(n, query) ==
  \/ n.title # Undefined /\ Contains(n.title, query)
  \/ n.content # Undefined /\ Contains(n.content, query)

IsSubsequenceInOrder(out, in) ==
  \A i, j \in 1..Len(out) : i < j => Pos(in, out[i].id) < Pos(in, out[j].id)

C13_FilterExactMatches ==
  \A q \in Queries :
    LET out == filterNotes(app.notes, q)
    IN IF q \in {Undefined, <<>>}
         THEN out = app.notes
         ELSE /\ Range(out) = {n \in Range(app.notes) : Matches(n, q)}
              /\ Len(out) = Cardinality(Range(out))
              /\ IsSubsequenceInOrder(out, app.notes)
              /\ last.op = "view" /\ app.query = q => IsPermutation(app.visible, out)

C13_Witness ==
  /\ last.op = "view"
  /\ app.query = <<"S", "H">>
  /\ Len(app.notes) = 2
  /\ Len(app.visible) = 1
  /\ app.visible[1].title = Shoe

\* C14: a timeout that was pending when the user switched to another note, or when
\* the component unmounted, never fires: no updateNote is issued for its edit.
C14_SwitchCancelsPendingSave ==
  [][\A t \in app.timers :
       TimerFires(t, Healthy) => ~t.switched /\ app.mounted]_vars

\* C15: at most one timeout is pending, that of the last edit; an autosave calls
\* updateNote only when that timeout fires, no earlier than Delay after the last
\* edit, at most once for a burst of edits, with the last edit's field and value.
SaveCalls(a) == {i \in 1..Len(a.tasks) : a.tasks[i].kind = "save"}

\* A step in which an autosave's updateNote call begins and is left waiting.
SaveCallBegins == Cardinality(SaveCalls(app')) > Cardinality(SaveCalls(app))

\* The updateNote call of a step, seen as the request it leaves waiting
\* (IndexedDB) or as the record it has written (localStorage).
CallCarries(id, upd) ==
  IF ctx = "indexedDB"
    THEN /\ SaveCallBegins
         /\ LET c == app'.tasks[Len(app'.tasks)]
            IN c.kind = "save" /\ c.pc = "write" /\ c.id = id /\ c.upd = upd
    ELSE \A n \in Range(Coll(ctx, idb', ls')) :
           n.id = id => \A fld \in upd.fields : n[fld] = upd.vals[fld]

C16_RefreshKeepsSelection ==
  [][\A i \in 1..Len(app.tasks) :
       app.tasks[i].kind \in {"save", "delete"} /\ TaskRefreshes(i) =>
         IF app.activeId \in Ids(app'.notes)
           THEN app'.activeId = app.activeId
           ELSE app'.activeId = IF Len(app'.notes) > 0 THEN app'.notes[1].id ELSE NoId]_vars

\* C17: whenever an autosave's write does not reach the store, on either backend,
\* the save indicator does not show "Saved" for that edit (saving stays set) and the
\* editor's inputs keep what the user typed.  The write is attempted when the note
\* is found: on localStorage within the step in which the timeout fires, on
\* IndexedDB in the step in which updateNote goes on after its read.
WriteFails(f) == f.lsSet \/ f.dbWrite

EditorKept ==
  /\ app'.saving
  /\ app'.title = app.title
  /\ app'.content = app.content

C17_FailedSaveNotShownSaved ==
  [][\A f \in WriteFaults(Faults) :
       WriteFails(f) =>
         /\ \A t \in app.timers :
              (ctx = "localStorage" /\ t.id \in Ids(Stored) /\ TimerFiresWith(t, f))
                => EditorKept
         /\ \A i \in 1..Len(app.tasks) :
              (app.tasks[i].kind = "save" /\ app.tasks[i].read # NoNote
               /\ TaskWritesWith(i, f))
                => EditorKept]_vars

\* C18: when two updateNote calls for the same id overlap (each has read the record
\* before the other writes), the record stored after both is exactly the record the
\* call that wrote last returns: what that call had read, with the fields it
\* supplies and its own updatedAt.  A field only the other call supplied holds the
\* value the last writer had read, not the other call's value.  The overlap shows at
\* the last write as a stored record that is no longer the one the call had read.
Supplied(t, field) ==
  IF field \in t.upd.fields THEN t.upd.vals[field] ELSE t.read[field]

C18_OverlapLastWriteWins ==
  [][\A i \in 1..Len(app.tasks) :
       LET t == app.tasks[i]
           before == getIndexed(idb, t.id)
           after == getIndexed(idb', t.id)
       IN (/\ t.read # NoNote
           /\ before.kind = "note"
           /\ before.note # t.read
           /\ TaskWritesWith(i, NoFault))
            => /\ after.kind = "note"
               /\ after.note.id = t.id
               /\ after.note.title = Supplied(t, "title")
               /\ after.note.content = Supplied(t, "content")
               /\ after.note.createdAt = t.read.createdAt
               /\ after.note.updatedAt = now
               /\ \E j \in 1..Len(app'.tasks) :
                    /\ app'.tasks[j].kind = t.kind
                    /\ app'.tasks[j].pc = "list"
                    /\ app'.tasks[j].read = after.note]_vars

\* The autosave of a title wrote last over a force save that had stored the typed
\* content: the stored record is the one the autosave returned, and its content is
\* the one the autosave had read.
C18_Witness ==
  \E i \in 1..Len(app.tasks) :
    LET t == app.tasks[i]
    IN /\ t.kind = "save"
       /\ t.wrote
       /\ t.upd.fields = {"title"}
       /\ t.hist.replaced # NoNote
       /\ t.hist.replaced.content # t.hist.read.content
       /\ getIndexed(idb, t.id) = Returned(t.read)
       /\ t.read.content = t.hist.read.content
       /\ t.read.title = t.upd.vals.title

\* C19: deletion is permanent.  Once deleteNote(id) has completed, no later state
\* holds a note with that id, also when an updateNote(id) that had read the record
\* before the delete writes after it.  createNote makes an id of its own, so a
\* deleted id is back in the store only if a step other than a creation brings an
\* id into the store: no such step does.
C19_DeletionPermanent ==
  [][(ctx # "none" /\ ~Create(Healthy)) => Ids(Stored') \subseteq Ids(Stored)]_vars

\* C20: the active note stays the same; the user edits the title and the content in
\* any order, also less than one delay apart, and then leaves the editor alone;
\* storage answers.  Then from some point on the stored note holds the last typed
\* value of every field that was typed in.
TypedStored ==
  LET n == getIndexed(Stored, app.activeId)
  IN \A field \in app.typed.fields :
       n.kind = "note" /\ n.note[field] = app.typed.vals[field]

C20_EditsEventuallyStored == <>[]TypedStored

====
